---- MODULE Spec2Model ----
(***************************************************************************)
(* P2PClient (talk/ics/sdk/p2p/p2pclient.cc): the allowed-remote-id list,  *)
(* the map of peer connection channels, the observer list and the event    *)
(* task queue, with the public operations and the signaling callbacks.     *)
(*                                                                         *)
(* Spec           the commands and the inbound signaling callback, every   *)
(*                operation one atomic step (calls made one after the      *)
(*                other, the event queue draining in between).             *)
(* SpecObservers  the observer list, the events the channels and the       *)
(*                signaling channel raise, and their delivery.             *)
(* SpecThreads    AddAllowedRemoteId, Publish, Send, Stop and OnMessage    *)
(*                called from several threads, one step per access to the  *)
(*                shared list, map and mutex.                              *)
(* SpecCreate     SpecThreads without Stop.                                *)
(* SpecGate       SpecCreate without OnMessage.                            *)
(* SpecLocal      the operations that fail a precondition themselves, with *)
(*                the event queue running.                                 *)
(* SpecChannel    the calls handed to the channels and to the signaling    *)
(*                channel with both callbacks given, and their reports.    *)
(* SpecPublish    Publish with and without callbacks, the reports of its   *)
(*                channel, and the end of the client.                      *)
(***************************************************************************)
EXTENDS Integers, Sequences, FiniteSets, TLC

\* ------------------------------------------------------------------ bounds
MaxChannels == 3      \* P2PPeerConnectionChannel objects ever constructed
MaxQueue == 2         \* tasks waiting in event_queue_
MaxObservers == 2     \* entries of observers_
NumThreads == 2       \* threads calling into the client at the same time
MaxAllowed == 2       \* entries of allowed_remote_ids_ (racing adds store duplicates)
MaxInFlight == 2      \* calls the channels and the signaling channel have not answered
MaxPublications == 2  \* P2PPublication objects ever constructed

RemoteIds == {"alice", "bob"}
Streams == {"streamA", "streamB"}
Observers == {"o1", "o2"}

\* The arguments of the events raised towards the observers.
EventIds == {"alice"}
EventStreams == {"remoteA"}

\* The reserved payload OnMessage compares with, and one that differs from it
\* by a blank only.
ChatClosed == "{\"type\":\"chat-closed\"}"
Messages == {ChatClosed, "{\"type\": \"chat-closed\"}"}

\* Send forwards its message to the channel without looking at it.
Payloads == {"hi"}

NoChannel == [remote_id |-> "", serial |-> 0]
NoException == [type_ |-> "", message_ |-> ""]
Threads == 1..NumThreads
NoThread == 0
\* A thread that is not inside any operation.
Idle == [pc |-> "idle", op |-> "", id |-> "", arg |-> "", on_failure |-> FALSE,
         pcc |-> [remote_id |-> "", serial |-> 0]]

NoTask == [fn |-> "", receiver |-> "", exception |-> NoException, arg |-> "", arg2 |-> ""]

VARIABLES
  allowed_remote_ids_,   \* std::vector<std::string>, as a sequence
  pc_channels_,          \* std::map<string, shared_ptr<channel>>, as a set of <<key, channel>>
  channels_created,      \* number of P2PPeerConnectionChannel objects constructed so far
  event_queue_,          \* rtc::TaskQueue: the posted tasks, oldest first
  observers_,            \* std::vector<reference_wrapper<P2PClientObserver>>
  crashed,               \* the process has died of undefined behaviour
  threads,               \* per calling thread: the operation it is in, where, its locals
  remote_ids_mutex_,     \* std::mutex: the thread holding it, NoThread if free
  last,                  \* the most recent call: its arguments, the channel call it made,
                         \* or the task the queue has just run (ran)
  in_flight,             \* the calls handed to the channels and to signaling_channel_
                         \* that have not reported yet, with the callbacks passed
  that,                  \* the P2PClient object still exists (weak_this.lock() succeeds)
  publications_created   \* number of P2PPublication objects constructed so far

vars == <<allowed_remote_ids_, pc_channels_, channels_created, event_queue_,
          observers_, crashed, threads, remote_ids_mutex_, last,
          in_flight, that, publications_created>>
observerVars == <<observers_, crashed>>
threadVars == <<threads, remote_ids_mutex_>>
channelVars == <<in_flight, that, publications_created>>

\* ------------------------------------------------------- oms::base::Exception
Exception(type, message) == [type_ |-> type, message_ |-> message]
Type(e) == e.type_
Message(e) == e.message_

\* ------------------------------------------------------------ std containers
\* std::find(v.begin(), v.end(), x) != v.end()
Find(v, x) == \E i \in 1..Len(v) : v[i] = x

\* v.erase(std::remove(v.begin(), v.end(), x), v.end()): every occurrence goes
Remove(v, x) == SelectSeq(v, LAMBDA y : y # x)

\* Faulty variant: a lookup that never finds the entry
MapFindMiss(map, key) == NoChannel

\* map.find(key): the mapped channel, NoChannel for end()
MapFind(map, key) ==
  IF \E e \in map : e[1] = key
  THEN (CHOOSE e \in map : e[1] = key)[2]
  ELSE NoChannel

\* map.insert(pair): std::map::insert keeps the entry already stored under key
MapInsert(map, key, pcc) ==
  IF \E e \in map : e[1] = key THEN map ELSE map \cup {<<key, pcc>>}

\* Faulty variant: an erase that leaves the entry
MapEraseNothing(map, key) == map

\* map.erase(key)
MapErase(map, key) == {e \in map : e[1] # key}

\* ------------------------------------------------------------------ helpers
\* The task a failing precondition posts: on_failure(Exception(type, message)).
FailureTask(op, type, message) ==
  [fn |-> "on_failure", receiver |-> op, exception |-> Exception(type, message),
   arg |-> "", arg2 |-> ""]

\* Faulty variant: a post that the queue loses
PostTaskNowhere(queue, task) == queue

\* event_queue_->PostTask(task)
PostTask(queue, task) == Append(queue, task)

NotAllowedPublish ==
  FailureTask("Publish", "kP2PClientRemoteNotAllowed",
              "Publishing a stream cannot be done since the remote user is not allowed.")
NotAllowedSend ==
  FailureTask("Send", "kP2PClientRemoteNotAllowed",
              "Sending a message cannot be done since the remote user is not allowed.")
\* Faulty variant: the unknown-id failure carrying the not-allowed kind
NotExistedWrongKind ==
  FailureTask("RemoveAllowedRemoteId", "kP2PClientRemoteNotAllowed",
              "Trying to delete non-existed remote id.")

NotExisted ==
  FailureTask("RemoveAllowedRemoteId", "kP2PClientRemoteNotExisted",
              "Trying to delete non-existed remote id.")

\* The record of a call: the entry point, its arguments, the channel the call
\* was delegated to (NoChannel if none) and the channel method invoked on it.
Call(op, id, arg, on_success, on_failure, pcc, method) ==
  [op |-> op, id |-> id, arg |-> arg, on_success |-> on_success,
   on_failure |-> on_failure, pcc |-> pcc, method |-> method, ran |-> NoTask]

IsPeerConnectionChannelCreated(target_id) ==
  MapFind(pc_channels_, target_id) # NoChannel

\* new P2PPeerConnectionChannel(config, local_id_, target_id, ...): a fresh object
NewChannel(target_id) == [remote_id |-> target_id, serial |-> channels_created + 1]

\* GetPeerConnectionChannel(target_id): the channel it returns ...
GetPeerConnectionChannel(target_id) ==
  IF MapFind(pc_channels_, target_id) = NoChannel
  THEN NewChannel(target_id)
  ELSE MapFind(pc_channels_, target_id)

\* ... the map it leaves, and the number of channels constructed after it.
ChannelsAfterGet(target_id) ==
  IF MapFind(pc_channels_, target_id) = NoChannel
  THEN MapInsert(pc_channels_, target_id, NewChannel(target_id))
  ELSE pc_channels_

CreatedAfterGet(target_id) ==
  IF MapFind(pc_channels_, target_id) = NoChannel
  THEN channels_created + 1
  ELSE channels_created

\* The model constructs at most MaxChannels channels and queues at most MaxQueue tasks.
CanGet(target_id) == CreatedAfterGet(target_id) <= MaxChannels
CanPost == Len(event_queue_) < MaxQueue

\* --------------------------------------------------------------------- Init
Init ==
  /\ allowed_remote_ids_ = <<>>
  /\ pc_channels_ = {}
  /\ channels_created = 0
  /\ event_queue_ = <<>>
  /\ observers_ = <<>>
  /\ crashed = FALSE
  /\ threads = [t \in Threads |-> Idle]
  /\ remote_ids_mutex_ = NoThread
  /\ last = Call("", "", "", FALSE, FALSE, NoChannel, "")
  /\ in_flight = {}
  /\ that = TRUE
  /\ publications_created = 0

\* --------------------------------------------------------------- operations
\* Faulty variant: push_back without the duplicate check
AddAllowedRemoteIdUnchecked(target_id) ==
  /\ allowed_remote_ids_' = Append(allowed_remote_ids_, target_id)
  /\ last' = Call("AddAllowedRemoteId", target_id, "", FALSE, FALSE, NoChannel, "")
  /\ UNCHANGED <<pc_channels_, channels_created, event_queue_, observerVars, channelVars,
                 threadVars>>

AddAllowedRemoteId(target_id) ==
  /\ allowed_remote_ids_' =
       IF Find(allowed_remote_ids_, target_id)
       THEN allowed_remote_ids_
       ELSE Append(allowed_remote_ids_, target_id)
  /\ last' = Call("AddAllowedRemoteId", target_id, "", FALSE, FALSE, NoChannel, "")
  /\ UNCHANGED <<pc_channels_, channels_created, event_queue_, observerVars, channelVars,
                 threadVars>>

\* pcc = GetPeerConnectionChannel(target_id); pcc->Stop(...); pc_channels_.erase;
\* allowed_remote_ids_.erase(remove(...)).  entry names the public call.
StopCall(entry, target_id, on_success, on_failure) ==
  /\ CanGet(target_id)
  /\ pc_channels_' = MapErase(ChannelsAfterGet(target_id), target_id)
  /\ channels_created' = CreatedAfterGet(target_id)
  /\ allowed_remote_ids_' = Remove(allowed_remote_ids_, target_id)
  /\ last' = Call(entry, target_id, "", on_success, on_failure,
                  GetPeerConnectionChannel(target_id), "Stop")
  /\ UNCHANGED <<event_queue_, observerVars, threadVars>>

Stop(target_id, on_success, on_failure) ==
  StopCall("Stop", target_id, on_success, on_failure)

RemoveAllowedRemoteId(target_id, on_success, on_failure) ==
  IF ~Find(allowed_remote_ids_, target_id)
  THEN /\ on_failure => CanPost
       /\ event_queue_' =
            IF on_failure THEN PostTask(event_queue_, NotExisted) ELSE event_queue_
       /\ last' = Call("RemoveAllowedRemoteId", target_id, "", on_success, on_failure,
                       NoChannel, "")
       /\ UNCHANGED <<allowed_remote_ids_, pc_channels_, channels_created, observerVars,
                 channelVars, threadVars>>
  ELSE StopCall("RemoveAllowedRemoteId", target_id, on_success, on_failure)

Publish(target_id, stream, on_success, on_failure) ==
  IF ~Find(allowed_remote_ids_, target_id)
  THEN /\ on_failure => CanPost
       /\ event_queue_' =
            IF on_failure THEN PostTask(event_queue_, NotAllowedPublish) ELSE event_queue_
       /\ last' = Call("Publish", target_id, stream, on_success, on_failure, NoChannel, "")
       /\ UNCHANGED <<allowed_remote_ids_, pc_channels_, channels_created, observerVars,
                 channelVars, threadVars>>
  ELSE /\ CanGet(target_id)
       /\ pc_channels_' = ChannelsAfterGet(target_id)
       /\ channels_created' = CreatedAfterGet(target_id)
       /\ last' = Call("Publish", target_id, stream, on_success, on_failure,
                       GetPeerConnectionChannel(target_id), "Publish")
       /\ UNCHANGED <<allowed_remote_ids_, event_queue_, observerVars, threadVars>>

Send(target_id, message, on_success, on_failure) ==
  IF ~Find(allowed_remote_ids_, target_id)
  THEN /\ on_failure => CanPost
       /\ event_queue_' =
            IF on_failure THEN PostTask(event_queue_, NotAllowedSend) ELSE event_queue_
       /\ last' = Call("Send", target_id, message, on_success, on_failure, NoChannel, "")
       /\ UNCHANGED <<allowed_remote_ids_, pc_channels_, channels_created, observerVars,
                 channelVars, threadVars>>
  ELSE /\ CanGet(target_id)
       /\ pc_channels_' = ChannelsAfterGet(target_id)
       /\ channels_created' = CreatedAfterGet(target_id)
       /\ last' = Call("Send", target_id, message, on_success, on_failure,
                       GetPeerConnectionChannel(target_id), "Send")
       /\ UNCHANGED <<allowed_remote_ids_, event_queue_, observerVars, threadVars>>

GetConnectionStats(target_id, on_success, on_failure) ==
  /\ CanGet(target_id)
  /\ pc_channels_' = ChannelsAfterGet(target_id)
  /\ channels_created' = CreatedAfterGet(target_id)
  /\ last' = Call("GetConnectionStats", target_id, "", on_success, on_failure,
                  GetPeerConnectionChannel(target_id), "GetConnectionStats")
  /\ UNCHANGED <<allowed_remote_ids_, event_queue_, observerVars, threadVars>>

Unpublish(target_id, stream, on_success, on_failure) ==
  /\ CanGet(target_id)
  /\ pc_channels_' = ChannelsAfterGet(target_id)
  /\ channels_created' = CreatedAfterGet(target_id)
  /\ last' = Call("Unpublish", target_id, stream, on_success, on_failure,
                  GetPeerConnectionChannel(target_id), "Unpublish")
  /\ UNCHANGED <<allowed_remote_ids_, event_queue_, observerVars, threadVars>>

\* Faulty variant: dispatch without the allowed-list check
OnMessageUngated(message, remote_id) ==
  /\ CanGet(remote_id)
  /\ pc_channels_' = ChannelsAfterGet(remote_id)
  /\ channels_created' = CreatedAfterGet(remote_id)
  /\ last' = Call("OnMessage", remote_id, message, FALSE, FALSE,
                  GetPeerConnectionChannel(remote_id), "OnIncomingSignalingMessage")
  /\ UNCHANGED <<allowed_remote_ids_, event_queue_, observerVars, channelVars,
                 threadVars>>

\* Faulty variant: dispatch without the chat-closed check
OnMessageClosedDispatched(message, remote_id) ==
  IF ~Find(allowed_remote_ids_, remote_id)
  THEN /\ last' = Call("OnMessage", remote_id, message, FALSE, FALSE, NoChannel, "")
       /\ UNCHANGED <<allowed_remote_ids_, pc_channels_, channels_created, event_queue_,
                       observerVars, channelVars, threadVars>>
  ELSE /\ CanGet(remote_id)
       /\ pc_channels_' = ChannelsAfterGet(remote_id)
       /\ channels_created' = CreatedAfterGet(remote_id)
       /\ last' = Call("OnMessage", remote_id, message, FALSE, FALSE,
                       GetPeerConnectionChannel(remote_id), "OnIncomingSignalingMessage")
       /\ UNCHANGED <<allowed_remote_ids_, event_queue_, observerVars, channelVars,
                 threadVars>>

\* The signaling channel's callback.
OnMessage(message, remote_id) ==
  IF ~Find(allowed_remote_ids_, remote_id)
  THEN /\ last' = Call("OnMessage", remote_id, message, FALSE, FALSE, NoChannel, "")
       /\ UNCHANGED <<allowed_remote_ids_, pc_channels_, channels_created, event_queue_,
                       observerVars, channelVars, threadVars>>
  ELSE IF message = ChatClosed /\ ~IsPeerConnectionChannelCreated(remote_id)
  THEN /\ last' = Call("OnMessage", remote_id, message, FALSE, FALSE, NoChannel, "")
       /\ UNCHANGED <<allowed_remote_ids_, pc_channels_, channels_created, event_queue_,
                       observerVars, channelVars, threadVars>>
  ELSE /\ CanGet(remote_id)
       /\ pc_channels_' = ChannelsAfterGet(remote_id)
       /\ channels_created' = CreatedAfterGet(remote_id)
       /\ last' = Call("OnMessage", remote_id, message, FALSE, FALSE,
                       GetPeerConnectionChannel(remote_id), "OnIncomingSignalingMessage")
       /\ UNCHANGED <<allowed_remote_ids_, event_queue_, observerVars, channelVars,
                 threadVars>>

\* Faulty variant: a queue that runs its newest task first
RunTaskNewest ==
  /\ ~crashed
  /\ event_queue_ # <<>>
  /\ event_queue_' = SubSeq(event_queue_, 1, Len(event_queue_) - 1)
  /\ last' = [Call("RunTask", "", "", FALSE, FALSE, NoChannel, "")
                EXCEPT !.ran = event_queue_[Len(event_queue_)]]
  /\ UNCHANGED <<allowed_remote_ids_, pc_channels_, channels_created, observerVars,
                 channelVars, threadVars>>

\* The task queue's thread runs the oldest task.
RunTask ==
  /\ ~crashed
  /\ event_queue_ # <<>>
  /\ event_queue_' = Tail(event_queue_)
  /\ last' = [Call("RunTask", "", "", FALSE, FALSE, NoChannel, "")
                EXCEPT !.ran = Head(event_queue_)]
  /\ UNCHANGED <<allowed_remote_ids_, pc_channels_, channels_created, observerVars,
                 channelVars, threadVars>>

\* Spec follows the client's own state only: what the channels do with the
\* calls and callbacks handed to them (channelVars) is the matter of SpecChannel.
Next ==
  \/ \E id \in RemoteIds : AddAllowedRemoteId(id)
  \/ \E id \in RemoteIds, f \in BOOLEAN :
       RemoveAllowedRemoteId(id, TRUE, f) /\ UNCHANGED channelVars
  \/ \E id \in RemoteIds, st \in Streams, s, f \in BOOLEAN :
       Publish(id, st, s, f) /\ UNCHANGED channelVars
  \/ \E id \in RemoteIds, m \in Payloads, f \in BOOLEAN :
       Send(id, m, TRUE, f) /\ UNCHANGED channelVars
  \/ \E id \in RemoteIds : Stop(id, TRUE, TRUE) /\ UNCHANGED channelVars
  \/ \E id \in RemoteIds : GetConnectionStats(id, TRUE, TRUE) /\ UNCHANGED channelVars
  \/ \E id \in RemoteIds, st \in Streams :
       Unpublish(id, st, TRUE, TRUE) /\ UNCHANGED channelVars
  \/ \E id \in RemoteIds, m \in Messages : OnMessage(m, id)
  \/ RunTask

Spec == Init /\ [][Next]_vars

\* ---------------------------------------------------------------- observers
\* EventTrigger::OnEvent0/1/2(observers_, event_queue_, method, args...): one
\* task per registered observer, in the order of the list, each bound to the
\* observer and the arguments at the time of the call.
EventTasks(observers, method, arg, arg2) ==
  [i \in 1..Len(observers) |->
     [fn |-> method, receiver |-> observers[i], exception |-> NoException,
      arg |-> arg, arg2 |-> arg2]]

OnEvent(op, method, arg, arg2) ==
  /\ ~crashed
  /\ Len(event_queue_) + Len(observers_) <= MaxQueue
  /\ event_queue_' = event_queue_ \o EventTasks(observers_, method, arg, arg2)
  /\ last' = Call(op, arg, arg2, FALSE, FALSE, NoChannel, "")
  /\ UNCHANGED <<allowed_remote_ids_, pc_channels_, channels_created, observerVars,
                 channelVars, threadVars>>

AddObserver(observer) ==
  /\ ~crashed
  /\ Len(observers_) < MaxObservers
  /\ observers_' = Append(observers_, observer)
  /\ last' = Call("AddObserver", observer, "", FALSE, FALSE, NoChannel, "")
  /\ UNCHANGED <<allowed_remote_ids_, pc_channels_, channels_created, event_queue_, crashed,
                 channelVars, threadVars>>

\* std::find_if(begin, end, same address): the index of the first match, 0 for end()
FindIf(observers, observer) ==
  IF \E i \in 1..Len(observers) : observers[i] = observer
  THEN CHOOSE i \in 1..Len(observers) :
         /\ observers[i] = observer
         /\ \A j \in 1..(i - 1) : observers[j] # observer
  ELSE 0

\* vector::erase(position) for a position inside the vector
Erase(v, i) == SubSeq(v, 1, i - 1) \o SubSeq(v, i + 1, Len(v))

\* observers_.erase(find_if(...)).  erase(end()) is undefined behaviour: the
\* shifted range is empty or inverted and the vector then shrinks by one, so a
\* build either drops the last entry or dies (always, if the vector is empty).
RemoveObserver(observer) ==
  /\ ~crashed
  /\ last' = Call("RemoveObserver", observer, "", FALSE, FALSE, NoChannel, "")
  /\ IF FindIf(observers_, observer) # 0
     THEN /\ observers_' = Erase(observers_, FindIf(observers_, observer))
          /\ UNCHANGED crashed
     ELSE \/ /\ observers_ # <<>>
             /\ observers_' = SubSeq(observers_, 1, Len(observers_) - 1)
             /\ UNCHANGED crashed
          \/ /\ crashed' = TRUE
             /\ UNCHANGED observers_
  /\ UNCHANGED <<allowed_remote_ids_, pc_channels_, channels_created, event_queue_,
                 channelVars, threadVars>>

OnServerDisconnected == OnEvent("OnServerDisconnected", "OnServerDisconnected", "", "")
OnStarted(remote_id) == OnEvent("OnStarted", "OnChatStarted", remote_id, "")
OnStopped(remote_id) == OnEvent("OnStopped", "OnChatStopped", remote_id, "")
OnDenied(remote_id) == OnEvent("OnDenied", "OnDenied", remote_id, "")
OnData(remote_id, message) == OnEvent("OnData", "OnDataReceived", remote_id, message)
OnStreamAdded(stream) == OnEvent("OnStreamAdded", "OnStreamAdded", stream, "")
OnStreamRemoved(stream) == OnEvent("OnStreamRemoved", "OnStreamRemoved", stream, "")

NextObservers ==
  \/ \E o \in Observers : AddObserver(o)
  \/ \E o \in Observers : RemoveObserver(o)
  \/ OnServerDisconnected
  \/ \E id \in EventIds : OnStarted(id)
  \/ \E id \in EventIds : OnStopped(id)
  \/ \E id \in EventIds : OnDenied(id)
  \/ \E id \in EventIds, m \in Payloads : OnData(id, m)
  \/ \E st \in EventStreams : OnStreamAdded(st)
  \/ \E st \in EventStreams : OnStreamRemoved(st)
  \/ RunTask

SpecObservers == Init /\ [][NextObservers]_vars

\* ------------------------------------------------------------------ threads
\* The same operations called from several threads.  A thread's record holds the
\* operation it is in (op, id, arg, on_failure), its position (pc) and the
\* channel GetPeerConnectionChannel returned to it (pcc).  Each step is one
\* access to allowed_remote_ids_, pc_channels_ or remote_ids_mutex_.  Only the
\* writes to allowed_remote_ids_ take the mutex; every std::find on the list and
\* every access to the map runs unlocked.  The map accesses are taken as atomic.
At(t, pc) == threads[t].pc = pc
Goto(t, pc) == threads' = [threads EXCEPT ![t].pc = pc]
Return(t) == threads' = [threads EXCEPT ![t] = Idle]
Enter(t, op, id, arg, on_failure, pc) ==
  /\ At(t, "idle")
  /\ threads' = [threads EXCEPT ![t] = [pc |-> pc, op |-> op, id |-> id, arg |-> arg,
                                        on_failure |-> on_failure, pcc |-> NoChannel]]
  /\ UNCHANGED <<allowed_remote_ids_, pc_channels_, channels_created, event_queue_,
                 observerVars, channelVars, remote_ids_mutex_, last>>

\* A thread holding the mutex is writing the list.
Writing(t) == remote_ids_mutex_ = t

\* Faulty variant: a check that finds every id
FindOutcomesAll(t) == {TRUE}

\* What std::find on the list can return to thread t: the membership, unless
\* another thread is writing the list at the same time (a data race, undefined
\* behaviour: the read may see the list before, after or in the middle of it).
FindOutcomes(t) ==
  IF \E u \in Threads \ {t} : Writing(u)
  THEN BOOLEAN
  ELSE {Find(allowed_remote_ids_, threads[t].id)}

CallAddAllowedRemoteId(t, target_id) ==
  Enter(t, "AddAllowedRemoteId", target_id, "", FALSE, "find")
CallPublish(t, target_id, stream, on_failure) ==
  Enter(t, "Publish", target_id, stream, on_failure, "find")
CallSend(t, target_id, message, on_failure) ==
  Enter(t, "Send", target_id, message, on_failure, "find")
CallOnMessage(t, message, remote_id) ==
  Enter(t, "OnMessage", remote_id, message, FALSE, "find")
\* Stop starts with GetPeerConnectionChannel.
CallStop(t, target_id) ==
  Enter(t, "Stop", target_id, "", TRUE, "map_find")

\* AddAllowedRemoteId: the duplicate check, before the lock is taken.
AddFind(t) ==
  /\ At(t, "find") /\ threads[t].op = "AddAllowedRemoteId"
  /\ \E found \in FindOutcomes(t) :
       IF found THEN Return(t) ELSE Goto(t, "lock")
  /\ UNCHANGED <<allowed_remote_ids_, pc_channels_, channels_created, event_queue_,
                 observerVars, channelVars, remote_ids_mutex_, last>>

\* Publish and Send: the allowed-list check; not found posts the failure and returns.
GateFind(t) ==
  /\ At(t, "find") /\ threads[t].op \in {"Publish", "Send"}
  /\ \E found \in FindOutcomes(t) :
       IF found
       THEN /\ Goto(t, "map_find")
            /\ UNCHANGED event_queue_
       ELSE /\ threads[t].on_failure => CanPost
            /\ event_queue_' =
                 IF ~threads[t].on_failure THEN event_queue_
                 ELSE PostTask(event_queue_,
                               IF threads[t].op = "Publish"
                               THEN NotAllowedPublish ELSE NotAllowedSend)
            /\ Return(t)
  /\ UNCHANGED <<allowed_remote_ids_, pc_channels_, channels_created,
                 observerVars, channelVars, remote_ids_mutex_, last>>

\* OnMessage: the allowed-list check, then the chat-closed check.
OnMessageFind(t) ==
  /\ At(t, "find") /\ threads[t].op = "OnMessage"
  /\ \E found \in FindOutcomes(t) :
       IF ~found THEN Return(t)
       ELSE IF threads[t].arg = ChatClosed THEN Goto(t, "created")
       ELSE Goto(t, "map_find")
  /\ UNCHANGED <<allowed_remote_ids_, pc_channels_, channels_created, event_queue_,
                 observerVars, channelVars, remote_ids_mutex_, last>>

OnMessageCreated(t) ==
  /\ At(t, "created")
  /\ IF IsPeerConnectionChannelCreated(threads[t].id)
     THEN Goto(t, "map_find")
     ELSE Return(t)
  /\ UNCHANGED <<allowed_remote_ids_, pc_channels_, channels_created, event_queue_,
                 observerVars, channelVars, remote_ids_mutex_, last>>

\* GetPeerConnectionChannel: pc_channels_.find(target_id) ...
GetChannelFind(t) ==
  /\ At(t, "map_find")
  /\ threads' =
       IF MapFind(pc_channels_, threads[t].id) = NoChannel
       THEN [threads EXCEPT ![t].pc = "map_insert"]
       ELSE [threads EXCEPT ![t].pc = "call",
                            ![t].pcc = MapFind(pc_channels_, threads[t].id)]
  /\ UNCHANGED <<allowed_remote_ids_, pc_channels_, channels_created, event_queue_,
                 observerVars, channelVars, remote_ids_mutex_, last>>

\* ... and, not found, the construction of a channel and pc_channels_.insert;
\* the new channel is returned whether or not the insert stored it.
GetChannelCreate(t) ==
  /\ At(t, "map_insert")
  /\ channels_created < MaxChannels
  /\ channels_created' = channels_created + 1
  /\ pc_channels_' = MapInsert(pc_channels_, threads[t].id, NewChannel(threads[t].id))
  /\ threads' = [threads EXCEPT ![t].pc = "call",
                                ![t].pcc = NewChannel(threads[t].id)]
  /\ UNCHANGED <<allowed_remote_ids_, event_queue_, observerVars, channelVars,
                 remote_ids_mutex_, last>>

\* pcc->Publish / Send / OnIncomingSignalingMessage / Stop, on the channel in the
\* thread's pcc; the call changes nothing in the client.
ChannelCall(t) ==
  /\ At(t, "call")
  /\ IF threads[t].op = "Stop"
     THEN threads' = [threads EXCEPT ![t].pc = "erase", ![t].pcc = NoChannel]
     ELSE Return(t)
  /\ UNCHANGED <<allowed_remote_ids_, pc_channels_, channels_created, event_queue_,
                 observerVars, channelVars, remote_ids_mutex_, last>>

\* Stop: pc_channels_.erase(target_id), outside the lock
StopErase(t) ==
  /\ At(t, "erase")
  /\ pc_channels_' = MapErase(pc_channels_, threads[t].id)
  /\ Goto(t, "lock")
  /\ UNCHANGED <<allowed_remote_ids_, channels_created, event_queue_,
                 observerVars, channelVars, remote_ids_mutex_, last>>

\* const std::lock_guard<std::mutex> lock(remote_ids_mutex_)
Lock(t) ==
  /\ At(t, "lock")
  /\ remote_ids_mutex_ = NoThread
  /\ remote_ids_mutex_' = t
  /\ Goto(t, "write")
  /\ UNCHANGED <<allowed_remote_ids_, pc_channels_, channels_created, event_queue_,
                 observerVars, channelVars, last>>

\* AddAllowedRemoteId: push_back under the lock, which the return releases
AddPushBack(t) ==
  /\ At(t, "write") /\ threads[t].op = "AddAllowedRemoteId"
  /\ Len(allowed_remote_ids_) < MaxAllowed
  /\ allowed_remote_ids_' = Append(allowed_remote_ids_, threads[t].id)
  /\ remote_ids_mutex_' = NoThread
  /\ Return(t)
  /\ UNCHANGED <<pc_channels_, channels_created, event_queue_, observerVars, channelVars, last>>

\* Stop: erase(remove(...)) under the lock, which the return releases
StopRemove(t) ==
  /\ At(t, "write") /\ threads[t].op = "Stop"
  /\ allowed_remote_ids_' = Remove(allowed_remote_ids_, threads[t].id)
  /\ remote_ids_mutex_' = NoThread
  /\ Return(t)
  /\ UNCHANGED <<pc_channels_, channels_created, event_queue_, observerVars, channelVars, last>>

\* The event queue's thread, beside the calling threads.
RunQueued ==
  /\ RunTask
  /\ UNCHANGED threadVars

\* The identity the threads contend for, the stream they publish, and whether
\* they pass a failure callback (the calls without one are part of Spec).
ThreadIds == {"alice"}
ThreadStreams == {"streamA"}
ThreadCallbacks == {TRUE}

NextGate ==
  \/ \E t \in Threads, id \in ThreadIds : CallAddAllowedRemoteId(t, id)
  \/ \E t \in Threads, id \in ThreadIds, st \in ThreadStreams, f \in ThreadCallbacks :
       CallPublish(t, id, st, f)
  \/ \E t \in Threads, id \in ThreadIds, m \in Payloads, f \in ThreadCallbacks :
       CallSend(t, id, m, f)
  \/ \E t \in Threads : AddFind(t)
  \/ \E t \in Threads : GateFind(t)
  \/ \E t \in Threads : GetChannelFind(t)
  \/ \E t \in Threads : GetChannelCreate(t)
  \/ \E t \in Threads : ChannelCall(t)
  \/ \E t \in Threads : Lock(t)
  \/ \E t \in Threads : AddPushBack(t)
  \/ RunQueued

NextCreate ==
  \/ NextGate
  \/ \E t \in Threads, id \in ThreadIds, m \in Messages : CallOnMessage(t, m, id)
  \/ \E t \in Threads : OnMessageFind(t)
  \/ \E t \in Threads : OnMessageCreated(t)

NextThreads ==
  \/ NextCreate
  \/ \E t \in Threads, id \in ThreadIds : CallStop(t, id)
  \/ \E t \in Threads : StopErase(t)
  \/ \E t \in Threads : StopRemove(t)

SpecGate == Init /\ [][NextGate]_vars
SpecCreate == Init /\ [][NextCreate]_vars
SpecThreads == Init /\ [][NextThreads]_vars

\* ----------------------------------------------------------- local failures
\* The operations that can fail a local precondition, and the queue's thread,
\* which runs every task posted to it: a task at the head of a running
\* rtc::TaskQueue is not passed over for ever.
NextLocal ==
  \/ \E id \in RemoteIds : AddAllowedRemoteId(id)
  \/ \E id \in RemoteIds, f \in BOOLEAN :
       RemoveAllowedRemoteId(id, TRUE, f) /\ UNCHANGED channelVars
  \/ \E id \in RemoteIds, st \in ThreadStreams, f \in BOOLEAN :
       Publish(id, st, TRUE, f) /\ UNCHANGED channelVars
  \/ \E id \in RemoteIds, m \in Payloads, f \in BOOLEAN :
       Send(id, m, TRUE, f) /\ UNCHANGED channelVars
  \/ RunTask

SpecLocal == Init /\ [][NextLocal]_vars /\ WF_vars(RunTask)

\* ------------------------------------------------------------ collaborators
\* What a P2PPeerConnectionChannel or the signaling channel holds of a call made
\* on it: the call, and the two callbacks passed with it.  on_success is
\* "lambda" (the closure Publish builds), "on_success" (the caller's own) or
\* "nullptr"; on_failure is "on_failure" (the caller's own) or "nullptr".
\* Equal calls waiting at the same time are held once.
HandedOver(call, on_success, on_failure) ==
  [call |-> call, on_success |-> on_success, on_failure |-> on_failure]

\* A std::function argument passed on as it is: the caller's, or empty.
Pass(callback, name) == IF callback THEN name ELSE "nullptr"

\* signaling_channel_, as the callee of a call
SignalingChannel == [remote_id |-> "signaling_channel_", serial |-> 0]

\* The errors a collaborator reports.
CollaboratorErrors == {[type_ |-> "kUnknown", message_ |-> "Unknown exception."]}

\* The arguments of Connect.
Hosts == {"host"}
Tokens == {"token"}

\* pcc->Method(..., on_success, on_failure) and signaling_channel_->Method(...):
\* the call this step has made (last') now waits in its callee.
HandOver(on_success, on_failure) ==
  /\ that
  /\ in_flight' =
       IF last'.method = ""
       THEN in_flight
       ELSE in_flight \cup {HandedOver(last', on_success, on_failure)}
  /\ Cardinality(in_flight') <= MaxInFlight
  /\ UNCHANGED <<that, publications_created>>

\* Publish passes its closure and the caller's on_failure (lines 103-113).
PublishDelegated(target_id, stream, on_success, on_failure) ==
  /\ Publish(target_id, stream, on_success, on_failure)
  /\ HandOver("lambda", Pass(on_failure, "on_failure"))

SendDelegated(target_id, message, on_success, on_failure) ==
  /\ Send(target_id, message, on_success, on_failure)
  /\ HandOver(Pass(on_success, "on_success"), Pass(on_failure, "on_failure"))

StopDelegated(target_id, on_success, on_failure) ==
  /\ Stop(target_id, on_success, on_failure)
  /\ HandOver(Pass(on_success, "on_success"), Pass(on_failure, "on_failure"))

RemoveAllowedRemoteIdDelegated(target_id, on_success, on_failure) ==
  /\ RemoveAllowedRemoteId(target_id, on_success, on_failure)
  /\ HandOver(Pass(on_success, "on_success"), Pass(on_failure, "on_failure"))

GetConnectionStatsDelegated(target_id, on_success, on_failure) ==
  /\ GetConnectionStats(target_id, on_success, on_failure)
  /\ HandOver(Pass(on_success, "on_success"), Pass(on_failure, "on_failure"))

UnpublishDelegated(target_id, stream, on_success, on_failure) ==
  /\ Unpublish(target_id, stream, on_success, on_failure)
  /\ HandOver(Pass(on_success, "on_success"), Pass(on_failure, "on_failure"))

\* The three operations that only call signaling_channel_.
SignalingCall(op, id, arg, on_success, on_failure, method) ==
  /\ last' = Call(op, id, arg, on_success, on_failure, SignalingChannel, method)
  /\ UNCHANGED <<allowed_remote_ids_, pc_channels_, channels_created, event_queue_,
                 observerVars, threadVars>>

Connect(host, token, on_success, on_failure) ==
  /\ SignalingCall("Connect", host, token, on_success, on_failure, "Connect")
  /\ HandOver(Pass(on_success, "on_success"), Pass(on_failure, "on_failure"))

Disconnect(on_success, on_failure) ==
  /\ SignalingCall("Disconnect", "", "", on_success, on_failure, "Disconnect")
  /\ HandOver(Pass(on_success, "on_success"), Pass(on_failure, "on_failure"))

\* SendMessage(message, remote_id, on_success, nullptr)
SendSignalingMessage(message, remote_id, on_success, on_failure) ==
  /\ SignalingCall("SendSignalingMessage", remote_id, message, on_success, on_failure,
                   "SendMessage")
  /\ HandOver(Pass(on_success, "on_success"), "nullptr")

\* on_success(...) / on_success(publication), as a task record
SuccessTask(op, arg, arg2) ==
  [fn |-> "on_success", receiver |-> op, exception |-> NoException,
   arg |-> arg, arg2 |-> arg2]

\* Faulty variant: a closure that does not look at weak_this
PublishLambdaKeepsClient(on_success, weak_this, target_id, stream) ==
  IF ~on_success THEN NoTask ELSE SuccessTask("Publish", target_id, stream)

\* Faulty variant: a closure whose Publication is bound to nothing
PublishLambdaUnbound(on_success, weak_this, target_id, stream) ==
  IF ~on_success THEN NoTask
  ELSE IF ~weak_this THEN NoTask
  ELSE SuccessTask("Publish", "", "")

\* The closure Publish passes as on_success: what it invokes when run, NoTask if
\* it returns early.  weak_this says whether weak_this.lock() gives the client;
\* the P2PPublication is built from the captured target_id and stream.
PublishLambda(on_success, weak_this, target_id, stream) ==
  IF ~on_success THEN NoTask
  ELSE IF ~weak_this THEN NoTask
  ELSE SuccessTask("Publish", target_id, stream)

\* What runs when the callee of c invokes the on_success it was given.
OnSuccessOf(c) ==
  CASE c.on_success = "lambda" ->
         PublishLambda(c.call.on_success, that, c.call.id, c.call.arg)
    [] c.on_success = "on_success" -> SuccessTask(c.call.op, "", "")
    [] OTHER -> NoTask

\* What runs when the callee of c invokes the on_failure it was given with e.
OnFailureOf(c, e) ==
  IF c.on_failure = "on_failure"
  THEN [fn |-> "on_failure", receiver |-> c.call.op, exception |-> e,
        arg |-> "", arg2 |-> ""]
  ELSE NoTask

\* The record of a report: the call it answers, and what ran.
Reported(op, c, task) ==
  [Call(op, c.call.id, c.call.arg, c.call.on_success, c.call.on_failure,
        c.call.pcc, c.call.method) EXCEPT !.ran = task]

\* The callee of c reports success: it invokes the on_success it holds.
ReportSuccess(c) ==
  /\ c \in in_flight
  /\ in_flight' = in_flight \ {c}
  /\ last' = Reported("ReportSuccess", c, OnSuccessOf(c))
  /\ publications_created' =
       IF c.on_success = "lambda" /\ OnSuccessOf(c) # NoTask
       THEN publications_created + 1
       ELSE publications_created
  /\ publications_created' <= MaxPublications
  /\ UNCHANGED <<allowed_remote_ids_, pc_channels_, channels_created, event_queue_,
                 observerVars, threadVars, that>>

\* The callee of c reports the failure e: it invokes the on_failure it holds.
ReportFailure(c, e) ==
  /\ c \in in_flight
  /\ in_flight' = in_flight \ {c}
  /\ last' = Reported("ReportFailure", c, OnFailureOf(c, e))
  /\ UNCHANGED <<allowed_remote_ids_, pc_channels_, channels_created, event_queue_,
                 observerVars, threadVars, that, publications_created>>

\* The last owner of the client lets go of it: weak_this.lock() fails from now
\* on, and no operation is called on the client any more.
Destroy ==
  /\ that
  /\ that' = FALSE
  /\ last' = Call("~P2PClient", "", "", FALSE, FALSE, NoChannel, "")
  /\ UNCHANGED <<allowed_remote_ids_, pc_channels_, channels_created, event_queue_,
                 observerVars, threadVars, in_flight, publications_created>>

\* Publish with and without callbacks, the reports of the channel, and the end
\* of the client.
NextPublish ==
  \/ \E id \in ThreadIds : that /\ AddAllowedRemoteId(id)
  \/ \E id \in ThreadIds, st \in ThreadStreams, s, f \in BOOLEAN :
       PublishDelegated(id, st, s, f)
  \/ \E c \in in_flight : ReportSuccess(c)
  \/ \E c \in in_flight, e \in CollaboratorErrors : ReportFailure(c, e)
  \/ Destroy
  \/ RunTask

\* Every operation that hands a failure callback to a collaborator.
NextChannel ==
  \/ \E id \in ThreadIds : that /\ AddAllowedRemoteId(id)
  \/ \E id \in ThreadIds, st \in ThreadStreams : PublishDelegated(id, st, TRUE, TRUE)
  \/ \E c \in in_flight : ReportSuccess(c)
  \/ \E c \in in_flight, e \in CollaboratorErrors : ReportFailure(c, e)
  \/ RunTask
  \/ \E id \in ThreadIds, m \in Payloads : SendDelegated(id, m, TRUE, TRUE)
  \/ \E id \in ThreadIds : StopDelegated(id, TRUE, TRUE)
  \/ \E id \in ThreadIds : RemoveAllowedRemoteIdDelegated(id, TRUE, TRUE)
  \/ \E id \in ThreadIds : GetConnectionStatsDelegated(id, TRUE, TRUE)
  \/ \E id \in ThreadIds, st \in ThreadStreams : UnpublishDelegated(id, st, TRUE, TRUE)
  \/ \E h \in Hosts, k \in Tokens : Connect(h, k, TRUE, TRUE)
  \/ Disconnect(TRUE, TRUE)
  \/ \E id \in ThreadIds, m \in Payloads : SendSignalingMessage(m, id, TRUE, TRUE)

SpecPublish == Init /\ [][NextPublish]_vars
SpecChannel == Init /\ [][NextChannel]_vars

\* ================================================================== claims
\* Vocabulary of the claims, stated on the data and not through the operators
\* of the model.
AuthorizedIn(ids, id) == id \in {ids[i] : i \in DOMAIN ids}
SessionsIn(map, id) == {e[2] : e \in {x \in map : x[1] = id}}
Occurrences(ids, id) == Cardinality({i \in DOMAIN ids : ids[i] = id})

\* This step appended exactly one task, a failure callback carrying kind type.
PostedFailure(type) ==
  /\ Len(event_queue_') = Len(event_queue_) + 1
  /\ SubSeq(event_queue_', 1, Len(event_queue_)) = event_queue_
  /\ event_queue_'[Len(event_queue_')].fn = "on_failure"
  /\ event_queue_'[Len(event_queue_')].exception.type_ = type

\* This step made no call on any channel.
NoChannelCall == last'.pcc = NoChannel /\ last'.method = ""

\* C2: after Stop(id), id is in neither the Session map nor the AuthorizationSet,
\* and a Send(id, ...) that follows posts RemoteNotAllowed, calls no channel and
\* creates no Session.
C2_StopRemovesBoth ==
  [][ /\ last'.op = "Stop" =>
           /\ ~AuthorizedIn(allowed_remote_ids_', last'.id)
           /\ SessionsIn(pc_channels_', last'.id) = {}
      /\ (last.op = "Stop" /\ last'.op = "Send" /\ last'.id = last.id) =>
           /\ NoChannelCall
           /\ UNCHANGED <<pc_channels_, channels_created, allowed_remote_ids_>>
           /\ IF last'.on_failure
              THEN PostedFailure("kP2PClientRemoteNotAllowed")
              ELSE UNCHANGED event_queue_ ]_vars

\* C2 witness: Stop has just torn down a Session it found in the map, for an id
\* that was authorized, while another id keeps its Session.
C2_Witness ==
  /\ last.op = "Stop"
  /\ last.pcc.serial \in 1..(channels_created - 1)
  /\ pc_channels_ # {}
  /\ allowed_remote_ids_ # <<>>

\* C4: RemoveAllowedRemoteId for an id outside the AuthorizationSet posts
\* RemoteNotExisted to the failure callback (when one was given), calls no
\* channel, and changes neither the AuthorizationSet nor the Session map.
C4_RemoveUnknown ==
  [][ (last'.op = "RemoveAllowedRemoteId"
        /\ ~AuthorizedIn(allowed_remote_ids_, last'.id)) =>
           /\ NoChannelCall
           /\ UNCHANGED <<pc_channels_, channels_created, allowed_remote_ids_>>
           /\ IF last'.on_failure
              THEN PostedFailure("kP2PClientRemoteNotExisted")
              ELSE UNCHANGED event_queue_ ]_vars

\* C4 witness: the call was made for an unknown id while another id is
\* authorized and has a Session, and its failure task is the newest in the queue.
C4_Witness ==
  /\ last.op = "RemoveAllowedRemoteId"
  /\ last.method = ""
  /\ last.on_failure
  /\ event_queue_ # <<>>
  /\ event_queue_[Len(event_queue_)].exception.type_ = "kP2PClientRemoteNotExisted"
  /\ allowed_remote_ids_ # <<>>
  /\ pc_channels_ # {}

\* C5: no identity occurs twice in the AuthorizationSet, and AddAllowedRemoteId
\* for an identity already in it leaves it as it was.
C5_AddIdempotent ==
  /\ [](\A id \in RemoteIds : Occurrences(allowed_remote_ids_, id) <= 1)
  /\ [][ (last'.op = "AddAllowedRemoteId"
            /\ AuthorizedIn(allowed_remote_ids_, last'.id)) =>
               UNCHANGED <<allowed_remote_ids_, pc_channels_, event_queue_>> ]_vars

\* C5 witness: the second of two AddAllowedRemoteId calls for the same identity.
C5_Witness ==
  /\ last.op = "AddAllowedRemoteId"
  /\ Len(allowed_remote_ids_) = 2
  /\ allowed_remote_ids_[1] = last.id

\* C6: the Session map holds at most one entry per identity; an authorized
\* Publish leaves the Session it used in the map; an entry leaves the map only
\* by Stop or RemoveAllowedRemoteId of its identity; and Publish, Send,
\* Unpublish and GetConnectionStats that find a Session use it and create none.
C6_GetOrCreateReuses ==
  /\ [](\A id \in RemoteIds : Cardinality(SessionsIn(pc_channels_, id)) <= 1)
  /\ [][ /\ (last'.op = "Publish" /\ AuthorizedIn(allowed_remote_ids_, last'.id)) =>
               SessionsIn(pc_channels_', last'.id) = {last'.pcc}
          /\ \A e \in pc_channels_ :
               \/ e \in pc_channels_'
               \/ last'.op \in {"Stop", "RemoveAllowedRemoteId"} /\ last'.id = e[1]
          /\ ( /\ last'.op \in {"Publish", "Send", "Unpublish", "GetConnectionStats"}
               /\ SessionsIn(pc_channels_, last'.id) # {}
               /\ (last'.op \in {"Publish", "Send"} =>
                     AuthorizedIn(allowed_remote_ids_, last'.id)) ) =>
               /\ SessionsIn(pc_channels_, last'.id) = {last'.pcc}
               /\ last'.method = last'.op
               /\ UNCHANGED <<pc_channels_, channels_created>> ]_vars

\* C6 witness: a Send delegated to a Session that an earlier call created,
\* after a later Session was created for the other identity.
C6_Witness ==
  /\ last.op = "Send"
  /\ last.method = "Send"
  /\ last.pcc.serial \in 1..(channels_created - 1)
  /\ Cardinality(pc_channels_) = 2

\* C8: an inbound message from an identity outside the AuthorizationSet reaches
\* no channel, creates no Session and changes nothing.
C8_UnauthorizedDropped ==
  [][ (last'.op = "OnMessage" /\ ~AuthorizedIn(allowed_remote_ids_, last'.id)) =>
        /\ NoChannelCall
        /\ UNCHANGED <<pc_channels_, channels_created, allowed_remote_ids_,
                       event_queue_>> ]_vars

\* C8 witness: the message was dropped although a Session for the sender exists.
C8_Witness ==
  /\ last.op = "OnMessage"
  /\ ~AuthorizedIn(allowed_remote_ids_, last.id)
  /\ SessionsIn(pc_channels_, last.id) # {}
  /\ last.method = ""

\* C9: from an authorized identity, "chat-closed" with no Session is dropped
\* (no Session, no channel call, no task posted); every other message goes to
\* OnIncomingSignalingMessage of the identity's Session, created if absent.
C9_ChatClosedDropped ==
  [][ (last'.op = "OnMessage" /\ AuthorizedIn(allowed_remote_ids_, last'.id)) =>
        IF last'.arg = "{\"type\":\"chat-closed\"}"
           /\ SessionsIn(pc_channels_, last'.id) = {}
        THEN /\ NoChannelCall
             /\ UNCHANGED <<pc_channels_, channels_created, allowed_remote_ids_,
                            event_queue_>>
        ELSE /\ last'.method = "OnIncomingSignalingMessage"
             /\ last'.pcc.remote_id = last'.id
             /\ SessionsIn(pc_channels_', last'.id) = {last'.pcc}
             /\ IF SessionsIn(pc_channels_, last'.id) = {}
                THEN /\ pc_channels_' = pc_channels_ \cup {<<last'.id, last'.pcc>>}
                     /\ channels_created' = channels_created + 1
                     /\ last'.pcc.serial = channels_created'
                ELSE UNCHANGED <<pc_channels_, channels_created>>
             /\ UNCHANGED <<allowed_remote_ids_, event_queue_>> ]_vars

\* C9 witness: a dropped "chat-closed" from an authorized identity without Session.
C9_Witness ==
  /\ last.op = "OnMessage"
  /\ last.arg = "{\"type\":\"chat-closed\"}"
  /\ AuthorizedIn(allowed_remote_ids_, last.id)
  /\ SessionsIn(pc_channels_, last.id) = {}
  /\ last.method = ""
  /\ pc_channels_ # {}


\* The calls that raise an event towards the observers.
EventOps == {"OnServerDisconnected", "OnStarted", "OnStopped", "OnDenied", "OnData",
             "OnStreamAdded", "OnStreamRemoved"}

\* The tasks this step appended to the queue.
Appended == {event_queue_'[i] : i \in (Len(event_queue_) + 1)..Len(event_queue_')}

\* C10: an event raised right after RemoveObserver(o) has returned posts no
\* delivery to o, whatever AddObserver/RemoveObserver calls came before, and
\* posts one to every observer still in the list.
C10_RemovedReceivesNothing ==
  [][ (last.op = "RemoveObserver" /\ last'.op \in EventOps) =>
        /\ \A t \in Appended : t.receiver # last.id
        /\ \A i \in 1..Len(observers_) :
             \E t \in Appended : t.receiver = observers_[i] ]_vars

\* C1: a thread whose Publish or Send checks an identity that is not in the
\* AuthorizationSet (no write of the list in progress) returns from that check
\* without looking up, creating or calling a Session, leaves the Session map and
\* the AuthorizationSet as they are, and posts RemoteNotAllowed to its failure
\* callback (when given), whatever the other threads are doing.
C1_UnauthorizedRejected ==
  [][ \A t \in Threads :
        ( /\ threads[t].pc = "find"
          /\ threads[t].op \in {"Publish", "Send"}
          /\ threads'[t] # threads[t]
          /\ ~AuthorizedIn(allowed_remote_ids_, threads[t].id)
          /\ remote_ids_mutex_ = NoThread ) =>
            /\ threads'[t].pc = "idle"
            /\ threads'[t].pcc = NoChannel
            /\ UNCHANGED <<pc_channels_, channels_created, allowed_remote_ids_>>
            /\ IF threads[t].on_failure
               THEN PostedFailure("kP2PClientRemoteNotAllowed")
               ELSE UNCHANGED event_queue_ ]_vars

\* C1 witness: two Publish calls for the same never-authorized identity are in
\* flight on two threads, and an earlier such call has posted its failure.
C1_Witness ==
  /\ allowed_remote_ids_ = <<>>
  /\ pc_channels_ = {}
  /\ channels_created = 0
  /\ event_queue_ # <<>>
  /\ event_queue_[1].exception.type_ = "kP2PClientRemoteNotAllowed"
  /\ \E t, u \in Threads :
       /\ t # u
       /\ threads[t].op = "Publish" /\ threads[u].op = "Publish"
       /\ threads[t].id = threads[u].id
       /\ threads[t].pc = "find" /\ threads[u].pc = "find"

\* A Stop that has erased the Session entry and not yet removed the identity.
StopHalfDone(t) ==
  /\ threads[t].op = "Stop"
  /\ threads[t].pc \in {"lock", "write"}
  /\ AuthorizedIn(allowed_remote_ids_, threads[t].id)

\* The positions at which a thread reads or writes the list or the map next.
SharedAccess(u) == threads[u].pc \in {"find", "created", "map_find", "map_insert"}

\* C3: Stop's two removals are one atomic step for the other threads: while a
\* Stop(id) has erased the Session entry and id is still authorized, no
\* Publish, Send or OnMessage for id reads or writes the list or the map.
C3_StopAtomic ==
  [][ \A t, u \in Threads :
        ( /\ t # u
          /\ StopHalfDone(t)
          /\ threads[u].op \in {"Publish", "Send", "OnMessage"}
          /\ threads[u].id = threads[t].id
          /\ SharedAccess(u) ) =>
            threads'[u] = threads[u] ]_vars

\* C7: without any Stop, every channel ever constructed is the Session stored
\* for its identity (one construction per identity), and every thread about to
\* call its channel holds the Session stored for that identity.
C7_OneSessionPerIdentity ==
  /\ channels_created = Cardinality(pc_channels_)
  /\ \A id \in RemoteIds : Cardinality(SessionsIn(pc_channels_, id)) <= 1
  /\ \A t \in Threads :
       threads[t].pc = "call" =>
         SessionsIn(pc_channels_, threads[t].id) = {threads[t].pcc}

\* The observer method each event call delivers.
DeliveredAs(op) ==
  CASE op = "OnServerDisconnected" -> "OnServerDisconnected"
    [] op = "OnStarted" -> "OnChatStarted"
    [] op = "OnStopped" -> "OnChatStopped"
    [] op = "OnDenied" -> "OnDenied"
    [] op = "OnData" -> "OnDataReceived"
    [] op = "OnStreamAdded" -> "OnStreamAdded"
    [] op = "OnStreamRemoved" -> "OnStreamRemoved"
    [] OTHER -> ""

\* C11: events go through one serialized queue.  An event puts its deliveries
\* behind everything already queued, one per registered observer in
\* registration order, each carrying the event's method and arguments; nothing
\* else changes the queue except the queue's own thread, which takes the oldest
\* delivery and runs that one alone.  So every observer sees the events in
\* emission order, and no two deliveries run at the same time.
C11_SerializedDelivery ==
  [][ IF last'.op \in EventOps
      THEN /\ Len(event_queue_') = Len(event_queue_) + Len(observers_)
           /\ SubSeq(event_queue_', 1, Len(event_queue_)) = event_queue_
           /\ \A i \in 1..Len(observers_) :
                /\ event_queue_'[Len(event_queue_) + i].receiver = observers_[i]
                /\ event_queue_'[Len(event_queue_) + i].fn = DeliveredAs(last'.op)
                /\ event_queue_'[Len(event_queue_) + i].arg = last'.id
                /\ event_queue_'[Len(event_queue_) + i].arg2 = last'.arg
      ELSE \/ event_queue_' = event_queue_
           \/ /\ last'.op = "RunTask"
              /\ event_queue_ # <<>>
              /\ last'.ran = event_queue_[1]
              /\ Len(event_queue_') = Len(event_queue_) - 1
              /\ \A i \in 1..Len(event_queue_') : event_queue_'[i] = event_queue_[i + 1]
    ]_vars

\* C11 witness: of one event raised with two different observers registered,
\* the delivery to the first has run and the delivery to the second is next.
C11_Witness ==
  /\ last.op = "RunTask"
  /\ Len(observers_) = 2
  /\ observers_[1] # observers_[2]
  /\ last.ran.receiver = observers_[1]
  /\ Len(event_queue_) = 1
  /\ event_queue_[1].receiver = observers_[2]
  /\ event_queue_[1].fn = last.ran.fn

\* The operations that check a precondition themselves, and the kind each reports.
FailingOps == {"Publish", "Send", "RemoveAllowedRemoteId"}
FailureKind(op) ==
  IF op = "RemoveAllowedRemoteId"
  THEN "kP2PClientRemoteNotExisted"
  ELSE "kP2PClientRemoteNotAllowed"

\* C12: a Publish, Send or RemoveAllowedRemoteId that fails its own precondition
\* invokes nothing before it returns; with a failure callback it posts exactly
\* one task, behind the tasks already queued, that calls this operation's
\* failure callback with the operation's error kind, and without one it posts
\* nothing.  The queue loses and repeats no task (tasks leave it only from the
\* head, by being run), and a failure task at the head is eventually run.
C12_FailuresPosted ==
  /\ [][ /\ (last'.op \in FailingOps /\ ~AuthorizedIn(allowed_remote_ids_, last'.id)) =>
              /\ last'.ran = NoTask
              /\ NoChannelCall
              /\ IF last'.on_failure
                 THEN /\ PostedFailure(FailureKind(last'.op))
                      /\ event_queue_'[Len(event_queue_')].receiver = last'.op
                 ELSE UNCHANGED event_queue_
         /\ IF last'.op = "RunTask"
            THEN /\ event_queue_ # <<>>
                 /\ last'.ran = event_queue_[1]
                 /\ event_queue_' = Tail(event_queue_)
            ELSE /\ last'.ran = NoTask
                 /\ Len(event_queue_') >= Len(event_queue_)
                 /\ SubSeq(event_queue_', 1, Len(event_queue_)) = event_queue_
     ]_vars
  /\ \A op \in FailingOps :
       (event_queue_ # <<>> /\ event_queue_[1].fn = "on_failure"
          /\ event_queue_[1].receiver = op)
       ~> (last.op = "RunTask" /\ last.ran.fn = "on_failure" /\ last.ran.receiver = op)

\* C12 witness: the failure callback of a rejected Publish has just run while
\* the failure of a RemoveAllowedRemoteId for an unknown id waits behind it.
C12_Witness ==
  /\ last.op = "RunTask"
  /\ last.ran.fn = "on_failure"
  /\ last.ran.receiver = "Publish"
  /\ last.ran.exception.type_ = "kP2PClientRemoteNotAllowed"
  /\ event_queue_ # <<>>
  /\ event_queue_[1].receiver = "RemoveAllowedRemoteId"
  /\ event_queue_[1].exception.type_ = "kP2PClientRemoteNotExisted"

\* The calls whose callee reports in this step.
Answered == in_flight \ in_flight'

\* This step invoked the success callback of a Publish call.
PublicationDelivered == last'.ran.fn = "on_success" /\ last'.ran.receiver = "Publish"

\* C13: the success callback of Publish is invoked only in a step in which the
\* channel of the target's Session reports the success of a Publish call that
\* gave a success callback, and the Publication it receives (the only one the
\* step constructs) is bound to that call's target and stream; a failure report
\* and every other step deliver and construct no Publication.
C13_PublicationAfterSuccess ==
  [][ /\ PublicationDelivered =>
            /\ last'.op = "ReportSuccess"
            /\ publications_created' = publications_created + 1
            /\ \E c \in Answered :
                 /\ c.call.op = "Publish"
                 /\ c.call.method = "Publish"
                 /\ c.call.on_success
                 /\ c.call.pcc.remote_id = c.call.id
                 /\ c.call.pcc.serial > 0
                 /\ last'.ran.arg = c.call.id
                 /\ last'.ran.arg2 = c.call.arg
      /\ ~PublicationDelivered => publications_created' = publications_created
      /\ last'.op # "ReportSuccess" =>
            /\ ~PublicationDelivered
            /\ last'.ran.fn # "on_success"
    ]_vars

\* C13 witness: the channel has reported the success of one Publish and its
\* Publication was delivered, while a second Publish still waits in the channel.
C13_Witness ==
  /\ last.op = "ReportSuccess"
  /\ last.ran.fn = "on_success"
  /\ last.ran.receiver = "Publish"
  /\ last.ran.arg = "alice"
  /\ last.ran.arg2 = "streamA"
  /\ publications_created = 1
  /\ in_flight # {}

\* C14: when a collaborator reports the failure of a call whose caller gave a
\* failure callback, that callback is invoked in the same step, for the
\* operation the caller called and with the error the collaborator reported.
C14_FailuresForwarded ==
  [][ last'.op = "ReportFailure" =>
        \A c \in Answered :
          c.call.on_failure =>
            /\ last'.ran.fn = "on_failure"
            /\ last'.ran.receiver = c.call.op
            /\ last'.ran.exception \in CollaboratorErrors ]_vars

\* C15: GetConnectionStats and Unpublish for an identity without a Session
\* construct no Session and leave the Session map as it was.
C15_NoSessionCreated ==
  [][ (last'.op \in {"GetConnectionStats", "Unpublish"}
        /\ SessionsIn(pc_channels_, last'.id) = {}) =>
          /\ pc_channels_' = pc_channels_
          /\ channels_created' = channels_created ]_vars

\* C16: a Session is constructed, and an entry enters the Session map, only for
\* an identity that is in the AuthorizationSet when the operation is called.
C16_CreatedOnlyAuthorized ==
  [][ /\ channels_created' # channels_created =>
           AuthorizedIn(allowed_remote_ids_, last'.id)
      /\ \A e \in pc_channels_' \ pc_channels_ :
           AuthorizedIn(allowed_remote_ids_, e[1]) ]_vars

\* C17: whatever the interleaving of the threads, no identity is in the
\* AuthorizationSet twice.
C17_NoDuplicateUnderRaces ==
  \A id \in RemoteIds :
    Cardinality({i \in DOMAIN allowed_remote_ids_ : allowed_remote_ids_[i] = id}) <= 1

\* The list ids without its entries equal to id.
Without(ids, id) ==
  LET keep[i \in 0..Len(ids)] ==
        IF i = 0 THEN <<>>
        ELSE IF ids[i] = id THEN keep[i - 1] ELSE Append(keep[i - 1], ids[i])
  IN keep[Len(ids)]

\* C18: RemoveAllowedRemoteId(id) for an authorized id leaves id out of the
\* AuthorizationSet and without Session, and every other identity's entries as
\* they were; it calls Stop with the caller's callbacks on the Session id had,
\* and where id had none it constructs none; it posts nothing itself.
C18_RemoveAuthorized ==
  [][ (last'.op = "RemoveAllowedRemoteId"
        /\ AuthorizedIn(allowed_remote_ids_, last'.id)) =>
          /\ allowed_remote_ids_' = Without(allowed_remote_ids_, last'.id)
          /\ pc_channels_' = {e \in pc_channels_ : e[1] # last'.id}
          /\ event_queue_' = event_queue_
          /\ IF SessionsIn(pc_channels_, last'.id) # {}
             THEN /\ last'.method = "Stop"
                  /\ SessionsIn(pc_channels_, last'.id) = {last'.pcc}
                  /\ channels_created' = channels_created
             ELSE channels_created' = channels_created ]_vars

\* C19: when the channel reports the success of a Publish after the client has
\* been destroyed, or of a Publish called without success callback, nothing is
\* invoked and no Publication is constructed.
C19_DestroyedClientNoOp ==
  [][ \A c \in Answered :
        ( /\ last'.op = "ReportSuccess"
          /\ c.call.op = "Publish"
          /\ (~that \/ ~c.call.on_success) ) =>
            /\ last'.ran = NoTask
            /\ publications_created' = publications_created ]_vars

\* C19 witness: a Publish with a success callback was answered after the end
\* of the client and invoked nothing; an earlier one had got its Publication.
C19_Witness ==
  /\ ~that
  /\ last.op = "ReportSuccess"
  /\ last.method = "Publish"
  /\ last.on_success
  /\ last.ran = NoTask
  /\ publications_created = 1

\* C20: RemoveObserver(o) for an o that is not in the observer list changes
\* nothing and ends normally; for an o in the list it takes out one
\* registration of o and leaves the others in their order.
C20_RemoveObserverExact ==
  [][ last'.op = "RemoveObserver" =>
        IF \E i \in DOMAIN observers_ : observers_[i] = last'.id
        THEN /\ crashed' = crashed
             /\ \E i \in DOMAIN observers_ :
                  /\ observers_[i] = last'.id
                  /\ observers_' = [j \in 1..(Len(observers_) - 1) |->
                                      IF j < i THEN observers_[j] ELSE observers_[j + 1]]
        ELSE /\ observers_' = observers_
             /\ crashed' = crashed ]_vars

====
